---- MODULE Spec2Model ----
(***************************************************************************)
(* A model of the GraphQL Mesh runtime, packages/runtime/src/get-mesh.ts:  *)
(* the construction of a mesh (getMesh), the in-context SDK callables, the *)
(* live-query invalidation subscriber, meshExecute / meshSubscribe and the *)
(* SDK requester; and of the Neo4j source handler,                          *)
(* packages/handlers/neo4j/src/index.ts.  Each part is a state machine of  *)
(* its own over its own variables (SpecMesh, SpecSdk, SpecInval, SpecExec, *)
(* SpecNeo); the variables of the other parts stay at their initial        *)
(* values.                                                                 *)
(***************************************************************************)
EXTENDS Naturals, Sequences, FiniteSets, TLC

VARIABLES
  \* ---- getMesh (construction) ----
  sources,       \* options.sources: the configured sources, in order
  mpc,           \* position of getMesh
  idx,           \* next element sources.map will call its callback on
  status,        \* per source: position of its async callback
  handlerFailed, \* sources whose getMeshSource / no-wrap transforms threw
  failed,        \* let failed = false
  rawSources,    \* const rawSources: RawSourceOutput[] (source indices)
  errorLog,      \* sources whose sourceLogger.error was called
  thrown,        \* the value getMesh rejected with
  mergerCalls,   \* calls of options.merger.getUnifiedSchema
  sourceMap,     \* unifiedSchema.extensions.sourceMap
  subscribed,    \* the resolverDone subscriber is registered
  meshContext,   \* const meshContext
  hooksApplied,  \* applyResolversHooksToSchema has run
  \* ---- one in-context SDK callable, rawSourceContext[rootType.name][fieldName] ----
  calls,         \* the invocations of the callable, in order
  delegated,     \* the calls handed to the delegation layer, in order
  loaderKeys,    \* keys collected by the open batch window
  tick,          \* the current scheduling tick
  \* ---- live-query invalidation ----
  liveQueryInvalidations,          \* options.liveQueryInvalidations
  liveQueryInvalidationFactoryMap, \* field path -> templates
  ipc,             \* position of the wiring: forEach, then subscribed
  ridx,            \* next entry forEach visits
  published,       \* the resolverDone events published so far
  invalidateCalls, \* the calls of liveQueryStore.invalidate, in order
  \* ---- meshExecute, meshSubscribe, localRequester ----
  req,             \* the request in progress: inputs, position, outcome
  requests,        \* requests started so far
  \* ---- one Neo4JHandler instance ----
  config,          \* this.config: cacheIntrospection, and whether url is usable
  cacheHist,       \* this.cache under cacheKey: the initial value, then each set
  cacheGets,       \* calls of cache.get
  driver,          \* this.driver: 0 when undefined, else the driver's number
  driversCreated,  \* drivers neo4j.driver has returned
  destroySubs,     \* pubsub.subscribe('destroy', ...) calls made
  closed,          \* driver.close() calls, in order: the driver closed
  destroys,        \* 'destroy' events published: this.driver at the time
  gms,             \* the getMeshSource calls, in order
  contexts         \* getDriver calls from outside getMeshSource

varsMesh == <<sources, mpc, idx, status, handlerFailed, failed, rawSources,
              errorLog, thrown, mergerCalls, sourceMap, subscribed,
              meshContext, hooksApplied>>

varsSdk == <<calls, delegated, loaderKeys, tick>>

varsInval == <<liveQueryInvalidations, liveQueryInvalidationFactoryMap, ipc,
               ridx, published, invalidateCalls>>

varsExec == <<req, requests>>

varsNeo == <<config, cacheHist, cacheGets, driver, driversCreated, destroySubs,
             closed, destroys, gms, contexts>>

vars == <<varsMesh, varsSdk, varsInval, varsExec, varsNeo>>

\* What each part leaves alone.
othersMesh == <<varsSdk, varsInval, varsExec, varsNeo>>
othersSdk == <<varsMesh, varsInval, varsExec, varsNeo>>
othersInval == <<varsMesh, varsSdk, varsExec, varsNeo>>
othersExec == <<varsMesh, varsSdk, varsInval, varsNeo>>
othersNeo == <<varsMesh, varsSdk, varsInval, varsExec>>

(***************************************************************************)
(* Bounds of the model.                                                    *)
(***************************************************************************)
MaxSources == 3
MaxCalls == 2
MaxRules == 2
MaxEvents == 2
MaxRequests == 2
MaxMeshSourceCalls == 2
MaxContexts == 1
MaxDestroys == 2

(***************************************************************************)
(* Values.                                                                 *)
(***************************************************************************)
\* apiSource.name: any string, "cache" among them (a key meshContext uses).
SourceNames == {"api1", "api2", "cache"}

\* What a handler or a transform can throw: an Error object, or nothing at
\* all (throw undefined, Promise.reject()).
UNDEFINED == [t |-> "undefined", message |-> <<>>]
HandlerError == [t |-> "Error", message |-> <<"boom">>]
ThrownValues == {HandlerError, UNDEFINED}
NoError == [t |-> "none", message |-> <<>>]

\* The message of the Error getMesh throws, word by word.
GENERIC_MESSAGE ==
  <<"Schemas", "couldn't", "be", "generated", "successfully.", "Check", "for",
    "the", "logs", "by", "running", "Mesh", "with", "DEBUG=1",
    "environmental", "variable", "to", "get", "more", "verbose", "output.">>

SchemaError == [t |-> "Error", message |-> GENERIC_MESSAGE]

\* A message names a source when the source's name is one of its words.
Names(message, name) == \E k \in DOMAIN message : message[k] = name

N == Len(sources)
SrcIds == 1..N

\* A root type of a transformed schema: absent, or a name and its fields.
NoRootType == [def |-> FALSE, name |-> "", fields |-> {}]
RootType(name, fields) == [def |-> TRUE, name |-> name, fields |-> fields]
OperationTypes == {"query", "mutation", "subscription"}

\* The root types of the schemas the sources produce: a query type alone, a
\* query and a mutation type, a query and a subscription type.
SchemaShapes ==
  <<[query |-> RootType("Query", {"a", "b"}), mutation |-> NoRootType,
     subscription |-> NoRootType],
    [query |-> RootType("Query", {"a"}), mutation |-> RootType("Mutation", {"m"}),
     subscription |-> NoRootType],
    [query |-> RootType("Query", {"q"}), mutation |-> NoRootType,
     subscription |-> RootType("Subscription", {"s"})]>>

\* The sub-schema the merger keeps for raw source i.
SubSchema(i) ==
  [id |-> i, rootTypes |-> SchemaShapes[((i - 1) % Len(SchemaShapes)) + 1]]

\* for (const operationType in rootTypes) if (rootType)
\*   for (const fieldName in rootTypeFieldMap)
\*     rawSourceContext[rootType.name][fieldName] = async (...) => ...
Callables(transformedSchema) ==
  UNION {{<<transformedSchema.rootTypes[op].name, f>> :
            f \in transformedSchema.rootTypes[op].fields} :
          op \in {o \in OperationTypes : transformedSchema.rootTypes[o].def}}

Handle(h) == [kind |-> "handle", h |-> h, src |-> 0, callables |-> {}]
\* rawSourceContext of raw source i, built from sourceMap.get(rawSource).
Sdk(i) == [kind |-> "sdk", h |-> "", src |-> i,
           callables |-> Callables(sourceMap[i])]

InitMeshVars(configs) ==
  /\ sources \in configs
  /\ mpc = "map"
  /\ idx = 1
  /\ status = [i \in 1..Len(sources) |-> "idle"]
  /\ handlerFailed = {}
  /\ failed = FALSE
  /\ rawSources = <<>>
  /\ errorLog = {}
  /\ thrown = NoError
  /\ mergerCalls = 0
  /\ sourceMap = <<>>
  /\ subscribed = FALSE
  /\ meshContext = <<>>
  /\ hooksApplied = FALSE

\* getMesh not called: the state of the other parts' specifications.
IdleMesh == InitMeshVars({<<>>})

\* A catch block that flips the flag and forgets to log the failure.
CatchBlock_NoLog(i, e) ==
  /\ status' = [status EXCEPT ![i] = IF e.t = "undefined" THEN "rejected"
                                     ELSE "caught"]
  /\ failed' = (failed \/ e.t # "undefined")
  /\ UNCHANGED errorLog

\* catch (e: any) { console.log(e); sourceLogger.error(`... ${e.message || e}`);
\*                  ...; failed = true; }
\* e.message on undefined or null is a TypeError thrown from inside the catch
\* block: the callback's promise rejects, before the log call and before
\* failed = true.
CatchBlock(i, e) ==
  IF e.t = "undefined"
    THEN /\ status' = [status EXCEPT ![i] = "rejected"]
         /\ UNCHANGED <<failed, errorLog>>
    ELSE /\ status' = [status EXCEPT ![i] = "caught"]
         /\ errorLog' = errorLog \cup {i}
         /\ failed' = TRUE

\* An assignment where the push should be: only the last source is kept.
PushRawSource_Overwrite(rs, i) == <<i>>

\* rawSources.push({name: apiName, schema: apiSchema, ...})
PushRawSource(rs, i) == Append(rs, i)

\* options.sources.map(async apiSource => ...): the callback of source i runs
\* synchronously up to its await; a getMeshSource that throws synchronously is
\* caught there and then.
Invoke(i) ==
  /\ mpc = "map"
  /\ i = idx
  /\ i <= N
  /\ idx' = idx + 1
  /\ \/ /\ status' = [status EXCEPT ![i] = "pending"]
        /\ UNCHANGED <<handlerFailed, failed, errorLog>>
     \/ \E e \in ThrownValues :
          /\ handlerFailed' = handlerFailed \cup {i}
          /\ CatchBlock(i, e)
  /\ UNCHANGED <<othersMesh, sources, mpc, rawSources, thrown, mergerCalls, sourceMap,
                 subscribed, meshContext, hooksApplied>>

\* sources.map has returned; Promise.allSettled awaits the callbacks.
MapDone ==
  /\ mpc = "map"
  /\ idx > N
  /\ mpc' = "await"
  /\ UNCHANGED <<othersMesh, sources, idx, status, handlerFailed, failed, rawSources,
                 errorLog, thrown, mergerCalls, sourceMap, subscribed,
                 meshContext, hooksApplied>>

\* The continuation of source i's callback after await getMeshSource(): the
\* handler's promise rejected, or it resolved and the no-wrap transforms threw,
\* or the raw source is pushed.
Settle(i) ==
  /\ mpc = "await"
  /\ i \in SrcIds
  /\ status[i] = "pending"
  /\ \/ /\ status' = [status EXCEPT ![i] = "pushed"]
        /\ rawSources' = PushRawSource(rawSources, i)
        /\ UNCHANGED <<handlerFailed, failed, errorLog>>
     \/ \E e \in ThrownValues :
          /\ handlerFailed' = handlerFailed \cup {i}
          /\ CatchBlock(i, e)
          /\ UNCHANGED rawSources
  /\ UNCHANGED <<othersMesh, sources, mpc, idx, thrown, mergerCalls, sourceMap, subscribed,
                 meshContext, hooksApplied>>

Settled(i) == status[i] \in {"pushed", "caught", "rejected"}

\* await Promise.allSettled(...) returns once every callback has settled;
\* if (failed) throw new Error(`Schemas couldn't be generated ...`)
AllSettled ==
  /\ mpc = "await"
  /\ \A i \in SrcIds : Settled(i)
  /\ IF failed
       THEN /\ mpc' = "failed"
            /\ thrown' = SchemaError
       ELSE /\ mpc' = "merge"
            /\ UNCHANGED thrown
  /\ UNCHANGED <<othersMesh, sources, idx, status, handlerFailed, failed, rawSources,
                 errorLog, mergerCalls, sourceMap, subscribed, meshContext,
                 hooksApplied>>

\* The merger's answer: one transformed sub-schema per raw source it was given.
getUnifiedSchema(rs) == [j \in {rs[k] : k \in DOMAIN rs} |-> SubSchema(j)]

\* let unifiedSchema = await options.merger.getUnifiedSchema({rawSources, ...})
Merge ==
  /\ mpc = "merge"
  /\ mergerCalls' = mergerCalls + 1
  /\ sourceMap' = getUnifiedSchema(rawSources)
  /\ mpc' = "subscribe"
  /\ UNCHANGED <<othersMesh, sources, idx, status, handlerFailed, failed, rawSources,
                 errorLog, thrown, subscribed, meshContext, hooksApplied>>

\* await pubsub.subscribe('resolverDone', ...);
\* const meshContext = {pubsub, cache, liveQueryStore, [MESH_CONTEXT_SYMBOL]: true}
SubscribeResolverDone ==
  /\ mpc = "subscribe"
  /\ subscribed' = TRUE
  /\ meshContext' = [k \in {"pubsub", "cache", "liveQueryStore"} |-> Handle(k)]
  /\ idx' = 1
  /\ mpc' = "sdk"
  /\ UNCHANGED <<othersMesh, sources, status, handlerFailed, failed, rawSources, errorLog,
                 thrown, mergerCalls, sourceMap, hooksApplied>>

\* rawSources.map(async rawSource => { ...; meshContext[rawSource.name] =
\* rawSourceContext; }): no await inside, the callbacks run in order.
AttachSdk ==
  /\ mpc = "sdk"
  /\ idx <= Len(rawSources)
  /\ rawSources[idx] \in DOMAIN sourceMap
  /\ LET name == sources[rawSources[idx]]
     IN  meshContext' = [k \in DOMAIN meshContext \cup {name} |->
                           IF k = name THEN Sdk(rawSources[idx])
                           ELSE meshContext[k]]
  /\ idx' = idx + 1
  /\ UNCHANGED <<othersMesh, sources, mpc, status, handlerFailed, failed, rawSources,
                 errorLog, thrown, mergerCalls, sourceMap, subscribed,
                 hooksApplied>>

\* unifiedSchema = applyResolversHooksToSchema(unifiedSchema, pubsub, meshContext)
ApplyHooks ==
  /\ mpc = "sdk"
  /\ idx > Len(rawSources)
  /\ hooksApplied' = TRUE
  /\ mpc' = "hooked"
  /\ UNCHANGED <<othersMesh, sources, idx, status, handlerFailed, failed, rawSources,
                 errorLog, thrown, mergerCalls, sourceMap, subscribed,
                 meshContext>>

\* return {execute: meshExecute, subscribe: meshSubscribe, ...}
Return ==
  /\ mpc = "hooked"
  /\ mpc' = "done"
  /\ UNCHANGED <<othersMesh, sources, idx, status, handlerFailed, failed, rawSources,
                 errorLog, thrown, mergerCalls, sourceMap, subscribed,
                 meshContext, hooksApplied>>

NextMesh ==
  \/ \E i \in SrcIds : Invoke(i)
  \/ MapDone
  \/ \E i \in SrcIds : Settle(i)
  \/ AllSettled
  \/ Merge
  \/ SubscribeResolverDone
  \/ AttachSdk
  \/ ApplyHooks
  \/ Return

(***************************************************************************)
(* The in-context SDK callable of one root field (get-mesh.ts:185-251).    *)
(***************************************************************************)
\* key?: string -- what a caller can pass: nothing, or a string ('' too).
KeyUndefined == [t |-> "undefined", v |-> ""]
StringKey(s) == [t |-> "string", v |-> s]

\* The (key, argsFromKeys) pairs callers pass: neither, one of the two, both
\* with two proper keys, both with the empty key.
SdkCallers ==
  {[key |-> KeyUndefined, argsFromKeys |-> FALSE],
   [key |-> KeyUndefined, argsFromKeys |-> TRUE],
   [key |-> StringKey("k1"), argsFromKeys |-> FALSE],
   [key |-> StringKey(""), argsFromKeys |-> TRUE],
   [key |-> StringKey("k1"), argsFromKeys |-> TRUE],
   [key |-> StringKey("k2"), argsFromKeys |-> TRUE]}

\* JavaScript truthiness of a key, as `key && argsFromKeys` tests it.
Truthy(k) == k.t = "string" /\ k.v # ""

\* The key was passed at all.
Supplied(k) == k.t # "undefined"

\* The caller's args, and the caller's argsFromKeys applied to keys.
DirectArgs == [kind |-> "args", keys |-> <<>>]
ArgsFromKeys(keys) == [kind |-> "argsFromKeys", keys |-> keys]

\* What the target schema answers: one value per key of a batch, one value
\* for a plain call.
ExecutorResult(args) ==
  IF args.kind = "argsFromKeys"
    THEN [k \in DOMAIN args.keys |-> "v:" \o args.keys[k].v]
    ELSE <<"v:args">>

\* The caller's valuesFromResults.
ValuesFromResults(result) == [k \in DOMAIN result |-> "x:" \o result[k]]

Pending == [st |-> "pending", v |-> <<>>]
Resolved(v) == [st |-> "resolved", v |-> v]
Rejected(e) == [st |-> "rejected", v |-> <<e>>]

DelegationErrors == {"E1"}

InitSdkVars ==
  /\ calls = <<>>
  /\ delegated = <<>>
  /\ loaderKeys = <<>>
  /\ tick = 0

IdleSdk == InitSdkVars

IndexOf(seq, x) == CHOOSE k \in DOMAIN seq : seq[k] = x

\* if (key && argsFromKeys)
BatchedPath(key, argsFromKeys) == Truthy(key) /\ argsFromKeys

\* batchDelegationOptions / options, as the callable builds them:
\* {...commonDelegateOptions, key, argsFromKeys, valuesFromResults} or
\* {...commonDelegateOptions, args}; transforms = [wrapQueryTransform] when a
\* selectionSet was passed.
DelegateOptions(key, argsFromKeys, valuesFromResults, selectionSet) ==
  IF BatchedPath(key, argsFromKeys)
    THEN [fn |-> "batchDelegateToSchema", key |-> TRUE, argsFromKeys |-> TRUE,
          valuesFromResults |-> TRUE, args |-> FALSE,
          transforms |-> selectionSet]
    ELSE [fn |-> "delegateToSchema", key |-> FALSE, argsFromKeys |-> FALSE,
          valuesFromResults |-> FALSE, args |-> TRUE,
          transforms |-> selectionSet]

\* The data loader of the batch-delegation layer: a key joins the open
\* window once.
LoaderLoad(keys, key) ==
  IF \E k \in DOMAIN keys : keys[k] = key THEN keys ELSE Append(keys, key)

\* One invocation of the callable.  The batched path hands the key to the
\* batch loader; the other path calls delegateToSchema at once and awaits it.
SdkCall(key, argsFromKeys, valuesFromResults, selectionSet) ==
  /\ Len(calls) < MaxCalls
  /\ LET opts == DelegateOptions(key, argsFromKeys, valuesFromResults,
                                 selectionSet)
         batched == opts.fn = "batchDelegateToSchema"
         call == [key |-> key, argsFromKeys |-> argsFromKeys,
                  valuesFromResults |-> valuesFromResults,
                  selectionSet |-> selectionSet, options |-> opts,
                  tick |-> tick,
                  delegate |-> IF batched THEN 0 ELSE Len(delegated) + 1,
                  vfrApplied |-> FALSE, vfrArgs |-> <<>>, outcome |-> Pending]
     IN  /\ calls' = Append(calls, call)
         /\ IF batched
              THEN /\ loaderKeys' = LoaderLoad(loaderKeys, key)
                   /\ UNCHANGED delegated
              ELSE /\ delegated' = Append(delegated,
                        [fn |-> "delegateToSchema", args |-> DirectArgs,
                         tick |-> tick, st |-> "pending", res |-> <<>>])
                   /\ UNCHANGED loaderKeys
  /\ UNCHANGED <<othersSdk, tick>>

\* The scheduling tick ends: the batch window closes and, if it collected
\* keys, one delegated call goes out for all of them.
EndTick ==
  /\ \E c \in DOMAIN calls : calls[c].tick = tick
  /\ tick' = tick + 1
  /\ loaderKeys' = <<>>
  /\ IF loaderKeys = <<>>
       THEN UNCHANGED <<calls, delegated>>
       ELSE /\ delegated' = Append(delegated,
                 [fn |-> "batchDelegateToSchema",
                  args |-> ArgsFromKeys(loaderKeys),
                  tick |-> tick, st |-> "pending", res |-> <<>>])
            /\ calls' = [c \in DOMAIN calls |->
                 IF calls[c].tick = tick /\ calls[c].delegate = 0
                   THEN [calls[c] EXCEPT !.delegate = Len(delegated) + 1]
                   ELSE calls[c]]
  /\ UNCHANGED othersSdk

\* The batch loader hands each caller the slice of its own key, or the
\* batch's error.
BatchOutcome(call, d, ok, e) ==
  IF ok
    THEN LET res == ExecutorResult(d.args)
             vals == IF call.valuesFromResults THEN ValuesFromResults(res)
                     ELSE res
         IN  [call EXCEPT !.outcome =
                            Resolved(<<vals[IndexOf(d.args.keys, call.key)]>>)]
    ELSE [call EXCEPT !.outcome = Rejected(e)]

\* A slip that wraps the delegation error and still maps the outcome.
SingleOutcome_Wrap(call, d, ok, e) ==
  IF ok
    THEN [call EXCEPT !.outcome = Resolved(ExecutorResult(d.args))]
    ELSE [call EXCEPT !.outcome = Rejected("wrapped"),
                      !.vfrApplied = call.valuesFromResults]

\* A callable that hands back the delegated result whatever the caller's
\* valuesFromResults.
SingleOutcome_Raw(call, d, ok, e) ==
  IF ok THEN [call EXCEPT !.outcome = Resolved(ExecutorResult(d.args))]
  ELSE [call EXCEPT !.outcome = Rejected(e)]

\* const result = await delegateToSchema(options);
\* if (valuesFromResults) { return valuesFromResults(result); } return result;
\* A rejection of delegateToSchema leaves the callable at the await.
SingleOutcome(call, d, ok, e) ==
  IF ok
    THEN LET result == ExecutorResult(d.args)
         IN  IF call.valuesFromResults
               THEN [call EXCEPT !.outcome = Resolved(ValuesFromResults(result)),
                                 !.vfrApplied = TRUE,
                                 !.vfrArgs = <<"result">>]
               ELSE [call EXCEPT !.outcome = Resolved(result)]
    ELSE [call EXCEPT !.outcome = Rejected(e)]

\* return batchDelegateToSchema(batchDelegationOptions) or the await of
\* delegateToSchema: what the callable's promise settles with.
CallableOutcome(call, d, ok, e) ==
  IF call.options.fn = "batchDelegateToSchema"
    THEN BatchOutcome(call, d, ok, e)
    ELSE SingleOutcome(call, d, ok, e)

\* Delegated call d settles: with the target's answer, or with an error.
DelegateSettle(d, ok, e) ==
  /\ d \in DOMAIN delegated
  /\ delegated[d].st = "pending"
  /\ delegated' = [delegated EXCEPT
                     ![d].st = IF ok THEN "ok" ELSE "err",
                     ![d].res = IF ok THEN ExecutorResult(delegated[d].args)
                                ELSE <<e>>]
  /\ calls' = [c \in DOMAIN calls |->
                 IF calls[c].delegate = d
                   THEN CallableOutcome(calls[c], delegated[d], ok, e)
                   ELSE calls[c]]
  /\ UNCHANGED <<othersSdk, loaderKeys, tick>>

NextSdk ==
  \/ \E c \in SdkCallers, vfr, sel \in BOOLEAN :
       SdkCall(c.key, c.argsFromKeys, vfr, sel)
  \/ EndTick
  \/ \E d \in DOMAIN delegated : DelegateSettle(d, TRUE, "")
  \/ \E d \in DOMAIN delegated, e \in DelegationErrors : DelegateSettle(d, FALSE, e)

(***************************************************************************)
(* Live-query invalidation wiring (get-mesh.ts:128-150).                   *)
(***************************************************************************)
\* A template is a list of parts: literal text, or a {variable}.
Lit(text) == [t |-> "lit", s |-> text]
Var(path) == [t |-> "var", s |-> path]

TemplateId == <<Lit("id:"), Var("args.id")>>
TemplateAll == <<Lit("all")>>
TemplateResult == <<Lit("res:"), Var("result"), Lit("/"), Var("args.id")>>

\* The entries a configuration is made of; two of them name Query.user.
InvalidationEntries ==
  {[field |-> "Query.user", invalidate |-> <<TemplateId>>],
   [field |-> "Query.user", invalidate |-> <<TemplateAll, TemplateResult>>],
   [field |-> "Mutation.update", invalidate |-> <<TemplateId, TemplateAll>>],
   [field |-> "Query.me", invalidate |-> <<>>]}

\* options.liveQueryInvalidations: absent (the empty list here: forEach is
\* skipped) or a list of entries.
InvalidationConfigs ==
  UNION {[1..n -> InvalidationEntries] : n \in 0..MaxRules}

\* resolverData.info.parentType and .fieldName: present or not.
NoType == [def |-> FALSE, name |-> ""]
Type(name) == [def |-> TRUE, name |-> name]
NoField == [def |-> FALSE, v |-> ""]
Field(v) == [def |-> TRUE, v |-> v]

\* The payloads of resolverDone: without resolverData.info, or with an info
\* that has or lacks parentType and fieldName.
ResolverEvents ==
  {[info |-> FALSE, parentType |-> NoType, fieldName |-> NoField,
    args |-> [id |-> id], result |-> "r1"] : id \in {"42", "7"}}
  \cup
  {[info |-> TRUE, parentType |-> pt, fieldName |-> f,
    args |-> [id |-> id], result |-> "r1"] :
      pt \in {NoType, Type("Query"), Type("Mutation")},
      f \in {NoField, Field("user"), Field("update")},
      id \in {"42", "7"}}

\* The value a {variable} stands for in {...resolverData, result}.
Lookup(data, path) ==
  CASE path = "args.id" -> data.args.id
    [] path = "result" -> data.result
    [] OTHER -> ""

\* The factory getInterpolatedStringFactory(template) applied to data: the
\* literal parts kept, each {variable} replaced by its value.
RECURSIVE Interpolate(_, _)
Interpolate(template, data) ==
  IF template = <<>> THEN ""
  ELSE LET part == Head(template)
       IN  (IF part.t = "lit" THEN part.s ELSE Lookup(data, part.s))
             \o Interpolate(Tail(template), data)

InitInvalVars(configs) ==
  /\ liveQueryInvalidations \in configs
  /\ liveQueryInvalidationFactoryMap = <<>>
  /\ ipc = "forEach"
  /\ ridx = 1
  /\ published = <<>>
  /\ invalidateCalls = <<>>

IdleInval == InitInvalVars({<<>>})

\* A map that keeps the factories it already has for a field.
MapSet_KeepFirst(map, field, factories) ==
  [k \in DOMAIN map \cup {field} |->
     IF k \in DOMAIN map THEN map[k] ELSE factories]

\* liveQueryInvalidationFactoryMap.set(liveQueryInvalidation.field, factories)
MapSet(map, field, factories) ==
  [k \in DOMAIN map \cup {field} |-> IF k = field THEN factories ELSE map[k]]

\* options.liveQueryInvalidations?.forEach(liveQueryInvalidation => ...)
AddInvalidation ==
  /\ ipc = "forEach"
  /\ ridx <= Len(liveQueryInvalidations)
  /\ LET entry == liveQueryInvalidations[ridx]
     IN  liveQueryInvalidationFactoryMap' =
           MapSet(liveQueryInvalidationFactoryMap, entry.field, entry.invalidate)
  /\ ridx' = ridx + 1
  /\ UNCHANGED <<othersInval, liveQueryInvalidations, ipc, published,
                 invalidateCalls>>

\* await pubsub.subscribe('resolverDone', async ({result, resolverData}) => ...)
SubscribeInvalidation ==
  /\ ipc = "forEach"
  /\ ridx > Len(liveQueryInvalidations)
  /\ ipc' = "subscribed"
  /\ UNCHANGED <<othersInval, liveQueryInvalidations,
                 liveQueryInvalidationFactoryMap, ridx, published,
                 invalidateCalls>>

\* A path that leaves the parent type out.
InvalidationPath_FieldOnly(ev) == ev.fieldName.v

\* const path = `${resolverData.info.parentType.name}.${resolverData.info.fieldName}`
InvalidationPath(ev) == ev.parentType.name \o "." \o ev.fieldName.v

\* if (resolverData?.info?.parentType && resolverData?.info?.fieldName)
\*   if (liveQueryInvalidationFactoryMap.has(path))
Invalidates(ev) ==
  /\ ev.info /\ ev.parentType.def /\ ev.fieldName.def
  /\ InvalidationPath(ev) \in DOMAIN liveQueryInvalidationFactoryMap

\* A subscriber that evaluates the first factory only.
InvalidationPaths_FirstOnly(ev) ==
  LET factories == liveQueryInvalidationFactoryMap[InvalidationPath(ev)]
      data == [args |-> ev.args, result |-> ev.result]
  IN  [k \in DOMAIN factories \cap {1} |-> Interpolate(factories[k], data)]

\* invalidationPathFactories.map(f => f({...resolverData, result}))
InvalidationPaths(ev) ==
  LET factories == liveQueryInvalidationFactoryMap[InvalidationPath(ev)]
      data == [args |-> ev.args, result |-> ev.result]
  IN  [k \in DOMAIN factories |-> Interpolate(factories[k], data)]

\* The subscriber runs on a published resolverDone event, up to its await of
\* liveQueryStore.invalidate(invalidationPaths).
ResolverDone(ev) ==
  /\ ipc = "subscribed"
  /\ Len(published) < MaxEvents
  /\ published' = Append(published, ev)
  /\ IF Invalidates(ev)
       THEN invalidateCalls' = Append(invalidateCalls,
              [event |-> Len(published) + 1, paths |-> InvalidationPaths(ev),
               st |-> "pending"])
       ELSE UNCHANGED invalidateCalls
  /\ UNCHANGED <<othersInval, liveQueryInvalidations,
                 liveQueryInvalidationFactoryMap, ipc, ridx>>

\* liveQueryStore.invalidate's promise resolves; the subscriber returns.
InvalidateDone(k) ==
  /\ k \in DOMAIN invalidateCalls
  /\ invalidateCalls[k].st = "pending"
  /\ invalidateCalls' = [invalidateCalls EXCEPT ![k].st = "done"]
  /\ UNCHANGED <<othersInval, liveQueryInvalidations,
                 liveQueryInvalidationFactoryMap, ipc, ridx, published>>

NextInval ==
  \/ AddInvalidation
  \/ SubscribeInvalidation
  \/ \E ev \in ResolverEvents : ResolverDone(ev)
  \/ \E k \in DOMAIN invalidateCalls : InvalidateDone(k)

(***************************************************************************)
(* meshExecute, meshSubscribe and localRequester (get-mesh.ts:281-411).    *)
(***************************************************************************)
\* operationName?: string, and the name of an operation definition.
NameUndefined == [def |-> FALSE, v |-> ""]
Name(v) == [def |-> TRUE, v |-> v]
OperationNames == {NameUndefined, Name(""), Name("A"), Name("B")}

\* A document is the list of its operation definitions.
Op(operation, name) == [operation |-> operation, name |-> name]
Documents ==
  {<<>>,
   <<Op("query", NameUndefined)>>,
   <<Op("query", Name("A"))>>,
   <<Op("query", Name("A")), Op("mutation", Name("B"))>>}

\* documentOrSDL: a parsed document, or a string that parses to one or not.
DocumentInputs ==
  {[form |-> "document", valid |-> TRUE, ops |-> d] : d \in Documents}
  \cup {[form |-> "sdl", valid |-> TRUE, ops |-> d] : d \in Documents}
  \cup {[form |-> "sdl", valid |-> FALSE, ops |-> <<>>]}

\* An execution result: data and errors are absent keys, keys holding
\* undefined, or values; also a result with neither key.
NoErrors(state) == [state |-> state, list |-> <<>>]
ErrorList(list) == [state |-> "list", list |-> list]
ExecutionResult(data, errors) == [data |-> data, errors |-> errors]
ExecutionResults ==
  {ExecutionResult("object", NoErrors("absent")),
   ExecutionResult("object", NoErrors("undefined")),
   ExecutionResult("null", ErrorList(<<"E1">>)),
   ExecutionResult("object", ErrorList(<<"E1", "E2">>)),
   ExecutionResult("object", ErrorList(<<>>)),
   ExecutionResult("null", NoErrors("absent")),
   ExecutionResult("undefined", NoErrors("absent")),
   ExecutionResult("absent", NoErrors("absent"))}
NoResult == ExecutionResult("none", NoErrors("none"))

\* A test of the value under the key where the test of the key should be.
HasKey_Truthy(v) == v \in {"object", "list"}

\* 'data' in executionResult, 'errors' in executionResult
HasKey(v) == v \notin {"absent", "none"}
\* JavaScript truthiness of executionResult.data and executionResult.errors.
DataTruthy(r) == r.data = "object"
ErrorsTruthy(r) == r.errors.state = "list"

\* What a call can reject with.
Failure(t, errors, data, carries) ==
  [t |-> t, errors |-> errors, data |-> data, document |-> carries]
NoFailure == Failure("none", NoErrors("none"), "none", FALSE)
TypeError == Failure("TypeError", NoErrors("none"), "none", FALSE)
SyntaxError == Failure("GraphQLError", NoErrors("none"), "none", FALSE)
ExecutorError == Failure("ExecutorError", NoErrors("none"), "none", FALSE)
NotImplemented == Failure("Error: Not implemented", NoErrors("none"), "none", FALSE)
\* new GraphQLMeshSdkError(errors, document, variables, data)
GraphQLMeshSdkError(errors, data) ==
  Failure("GraphQLMeshSdkError", errors, data, TRUE)

OutcomePending == [st |-> "pending", result |-> NoResult, data |-> "none",
                   error |-> NoFailure]
Returns(result) == [st |-> "resolved", result |-> result, data |-> "none",
                    error |-> NoFailure]
ReturnsData(data) == [st |-> "resolved", result |-> NoResult, data |-> data,
                      error |-> NoFailure]
Throws(error) == [st |-> "rejected", result |-> NoResult, data |-> "none",
                  error |-> error]

IdleRequest ==
  [api |-> "none", input |-> [form |-> "document", valid |-> TRUE, ops |-> <<>>],
   operationName |-> NameUndefined, pc |-> "idle", document |-> <<>>,
   opName |-> NameUndefined, liveQueryExecute |-> 0, jitExecutor |-> 0,
   result |-> NoResult, logged |-> FALSE, outcome |-> OutcomePending]

InitExecVars ==
  /\ req = IdleRequest
  /\ requests = 0

IdleExec == InitExecVars

\* A call of mesh.execute, mesh.subscribe or mesh.sdkRequester; the requester
\* takes a DocumentNode.
Start(api, input, operationName) ==
  /\ req.pc \in {"idle", "done"}
  /\ requests < MaxRequests
  /\ api = "sdkRequester" => input.form = "document"
  /\ requests' = requests + 1
  /\ req' = [IdleRequest EXCEPT !.api = api, !.input = input,
                                !.operationName = operationName,
                                !.opName = operationName,
                                !.pc = "normalize"]
  /\ UNCHANGED othersExec

\* const { document, sdl } = getDocumentNodeAndSDL(documentOrSDL): a string
\* is parsed, and a string that does not parse throws.
Normalize ==
  /\ req.pc = "normalize"
  /\ req' = IF req.input.form = "sdl" /\ ~req.input.valid
              THEN [req EXCEPT !.pc = "done", !.outcome = Throws(SyntaxError)]
              ELSE [req EXCEPT !.pc = "name", !.document = req.input.ops]
  /\ UNCHANGED <<othersExec, requests>>

\* getOperationAST(document) without a name: the document's operation when it
\* has exactly one, null otherwise.
getOperationAST(document) ==
  IF Len(document) = 1 THEN [null |-> FALSE, node |-> document[1]]
  ELSE [null |-> TRUE, node |-> Op("none", NameUndefined)]

\* !operationName
Falsy(name) == ~name.def \/ name.v = ""

\* The inference done whether or not a name was passed.
InfersName_Always(name) == TRUE

\* if (!operationName)
InfersName(name) == Falsy(name)

\* if (!operationName) { const operationAst = getOperationAST(document);
\*                       operationName = operationAst.name?.value; }
\* operationAst.name on null is a TypeError.
ResolveOperationName ==
  /\ req.pc = "name"
  /\ req' =
       IF InfersName(req.opName)
         THEN LET operationAst == getOperationAST(req.document)
              IN  IF operationAst.null
                    THEN [req EXCEPT !.pc = "done", !.outcome = Throws(TypeError)]
                    ELSE [req EXCEPT !.pc = "execute",
                                     !.opName = operationAst.node.name]
         ELSE [req EXCEPT !.pc = "execute"]
  /\ UNCHANGED <<othersExec, requests>>

\* meshExecute: await liveQueryExecute(executionParams), which runs the
\* operation through jitExecutor; meshSubscribe: await jitExecutor({...}).
CallExecutor ==
  /\ req.pc = "execute"
  /\ req' = IF req.api = "subscribe"
              THEN [req EXCEPT !.pc = "executing",
                               !.jitExecutor = req.jitExecutor + 1]
              ELSE [req EXCEPT !.pc = "executing",
                               !.liveQueryExecute = req.liveQueryExecute + 1,
                               !.jitExecutor = req.jitExecutor + 1]
  /\ UNCHANGED <<othersExec, requests>>

\* The executor answers: meshExecute and meshSubscribe return the result; the
\* requester goes on with it.
ExecutorReturns(result) ==
  /\ req.pc = "executing"
  /\ req' = IF req.api = "sdkRequester"
              THEN [req EXCEPT !.pc = "respond", !.result = result]
              ELSE [req EXCEPT !.pc = "done", !.result = result,
                               !.outcome = Returns(result)]
  /\ UNCHANGED <<othersExec, requests>>

\* The executor throws: nothing catches it.
ExecutorThrows ==
  /\ req.pc = "executing"
  /\ req' = [req EXCEPT !.pc = "done", !.outcome = Throws(ExecutorError)]
  /\ UNCHANGED <<othersExec, requests>>

\* class GraphQLMeshSdkError: super(errors, `GraphQL Mesh SDK
\* ${getOperationAST(document).operation} ${getOperationAST(document).name?.value
\* || ''} failed!`): the message is built before the error exists, and
\* getOperationAST(document).operation on null is a TypeError.
NewGraphQLMeshSdkError(document, errors, data) ==
  IF getOperationAST(document).null THEN TypeError
  ELSE GraphQLMeshSdkError(errors, data)

\* localRequester, after await meshExecute(...).
Respond ==
  /\ req.pc = "respond"
  /\ LET executionResult == req.result
     IN  req' =
           IF HasKey(executionResult.data) \/ HasKey(executionResult.errors.state)
             THEN IF DataTruthy(executionResult) /\ ~ErrorsTruthy(executionResult)
                    THEN [req EXCEPT !.pc = "done",
                                     !.outcome = ReturnsData(executionResult.data)]
                    ELSE [req EXCEPT !.pc = "done", !.logged = TRUE,
                            !.outcome = Throws(NewGraphQLMeshSdkError(
                               req.document, executionResult.errors,
                               executionResult.data))]
             ELSE [req EXCEPT !.pc = "done", !.outcome = Throws(NotImplemented)]
  /\ UNCHANGED <<othersExec, requests>>

NextExec ==
  \/ \E api \in {"execute", "subscribe", "sdkRequester"},
        input \in DocumentInputs, operationName \in OperationNames :
       Start(api, input, operationName)
  \/ Normalize
  \/ ResolveOperationName
  \/ CallExecutor
  \/ \E result \in ExecutionResults : ExecutorReturns(result)
  \/ ExecutorThrows
  \/ Respond

(***************************************************************************)
(* The Neo4j handler (packages/handlers/neo4j/src/index.ts).               *)
(***************************************************************************)
\* typeDefs: string -- what the cache holds under cacheKey before the handler
\* runs (nothing, the empty string, type definitions) and what inferSchema
\* answers.
NoTypeDefs == [def |-> FALSE, v |-> ""]
TypeDefs(v) == [def |-> TRUE, v |-> v]
CachedValues == {NoTypeDefs, TypeDefs(""), TypeDefs("T0")}
InferredTypeDefs == {TypeDefs("T1"), TypeDefs("T2")}

\* this.config: cacheIntrospection on or off; a url neo4j.driver accepts or
\* throws on.
Neo4JConfigs == [cacheIntrospection : BOOLEAN, urlValid : BOOLEAN]

\* A getMeshSource call: its position, what it read and wrote, its outcome.
NewMeshSourceCall ==
  [pc |-> "start", gets |-> 0, cached |-> NoTypeDefs, inferSchema |-> 0,
   createdDriver |-> FALSE, sets |-> 0, wrote |-> NoTypeDefs,
   typeDefs |-> NoTypeDefs, st |-> "pending"]

InitNeoVars(configs, cached) ==
  /\ config \in configs
  /\ cacheHist \in {<<v>> : v \in cached}
  /\ cacheGets = 0
  /\ driver = 0
  /\ driversCreated = 0
  /\ destroySubs = 0
  /\ closed = <<>>
  /\ destroys = <<>>
  /\ gms = <<>>
  /\ contexts = 0

\* No handler constructed: the state of the other parts' specifications.
IdleNeo ==
  InitNeoVars({[cacheIntrospection |-> FALSE, urlValid |-> TRUE]}, {NoTypeDefs})

\* The value the cache holds under cacheKey now.
CacheValue == cacheHist[Len(cacheHist)]

\* A getDriver that forgets it has a driver.
NeedsDriver_Always(d) == TRUE

\* if (!this.driver)
NeedsDriver(d) == d = 0

\* getDriver(): on first demand this.driver = neo4j.driver(...) and
\* pubsub.subscribe('destroy', () => this.driver.close()); a url the driver
\* rejects throws before the assignment.  The new values of this.driver, of
\* the drivers created and of the destroy subscriptions.
getDriver ==
  IF NeedsDriver(driver)
    THEN IF config.urlValid
           THEN [driver |-> driversCreated + 1, created |-> driversCreated + 1,
                 subs |-> destroySubs + 1, threw |-> FALSE, new |-> TRUE]
           ELSE [driver |-> driver, created |-> driversCreated,
                 subs |-> destroySubs, threw |-> TRUE, new |-> FALSE]
    ELSE [driver |-> driver, created |-> driversCreated, subs |-> destroySubs,
          threw |-> FALSE, new |-> FALSE]

SetDriver(d) ==
  /\ driver' = d.driver
  /\ driversCreated' = d.created
  /\ destroySubs' = d.subs

\* A cache consulted whatever the configuration says.
UsesCache_Always(cfg) == TRUE

\* if (this.config.cacheIntrospection)
UsesCache(cfg) == cfg.cacheIntrospection

\* !typeDefs
NoUsableTypeDefs(typeDefs) == ~typeDefs.def \/ typeDefs.v = ""

\* if (!typeDefs) { const inferredSchema = await inferSchema(this.getDriver(),
\* ...): getDriver runs first, synchronously; the call then waits for the
\* inference, or has failed in getDriver.
BeginInference(call) ==
  LET d == getDriver
  IN  IF d.threw
        THEN [call EXCEPT !.pc = "done", !.st = "rejected"]
        ELSE [call EXCEPT !.pc = "infer", !.inferSchema = call.inferSchema + 1,
                          !.createdDriver = d.new]

\* const schema = makeAugmentedSchema({typeDefs}); return {schema, ...}
ReturnSource(call) == [call EXCEPT !.pc = "done", !.st = "resolved"]

\* getMeshSource() is called: it runs up to its first await, which is
\* cache.get(cacheKey) with cacheIntrospection and inferSchema(...) without.
GetMeshSource ==
  /\ Len(gms) < MaxMeshSourceCalls
  /\ IF UsesCache(config)
       THEN /\ gms' = Append(gms, [NewMeshSourceCall EXCEPT !.pc = "get",
                                                            !.gets = 1])
            /\ cacheGets' = cacheGets + 1
            /\ UNCHANGED <<driver, driversCreated, destroySubs>>
       ELSE /\ gms' = Append(gms, BeginInference(NewMeshSourceCall))
            /\ SetDriver(getDriver)
            /\ UNCHANGED cacheGets
  /\ UNCHANGED <<othersNeo, config, cacheHist, closed, destroys, contexts>>

\* typeDefs = await this.cache.get(cacheKey) resumes with the value the cache
\* holds; usable type definitions go straight to makeAugmentedSchema.
CacheGetReturns(c) ==
  /\ c \in DOMAIN gms
  /\ gms[c].pc = "get"
  /\ LET call == [gms[c] EXCEPT !.cached = CacheValue, !.typeDefs = CacheValue]
     IN  IF NoUsableTypeDefs(call.typeDefs)
           THEN /\ gms' = [gms EXCEPT ![c] = BeginInference(call)]
                /\ SetDriver(getDriver)
           ELSE /\ gms' = [gms EXCEPT ![c] = ReturnSource(call)]
                /\ UNCHANGED <<driver, driversCreated, destroySubs>>
  /\ UNCHANGED <<othersNeo, config, cacheHist, cacheGets, closed, destroys,
                 contexts>>

\* inferSchema resolves: typeDefs = inferredSchema.typeDefs;
\* if (this.config.cacheIntrospection) await this.cache.set(cacheKey, typeDefs)
InferReturns(c, inferred) ==
  /\ c \in DOMAIN gms
  /\ gms[c].pc = "infer"
  /\ LET call == [gms[c] EXCEPT !.typeDefs = inferred]
     IN  IF UsesCache(config)
           THEN /\ gms' = [gms EXCEPT ![c] = [call EXCEPT !.pc = "set",
                                                          !.sets = call.sets + 1,
                                                          !.wrote = inferred]]
                /\ cacheHist' = Append(cacheHist, inferred)
           ELSE /\ gms' = [gms EXCEPT ![c] = ReturnSource(call)]
                /\ UNCHANGED cacheHist
  /\ UNCHANGED <<othersNeo, config, cacheGets, driver, driversCreated,
                 destroySubs, closed, destroys, contexts>>

\* inferSchema rejects: getMeshSource rejects at its await.
InferFails(c) ==
  /\ c \in DOMAIN gms
  /\ gms[c].pc = "infer"
  /\ gms' = [gms EXCEPT ![c] = [gms[c] EXCEPT !.pc = "done", !.st = "rejected"]]
  /\ UNCHANGED <<othersNeo, config, cacheHist, cacheGets, driver,
                 driversCreated, destroySubs, closed, destroys, contexts>>

\* await this.cache.set(...) resumes: makeAugmentedSchema and return.
CacheSetReturns(c) ==
  /\ c \in DOMAIN gms
  /\ gms[c].pc = "set"
  /\ gms' = [gms EXCEPT ![c] = ReturnSource(gms[c])]
  /\ UNCHANGED <<othersNeo, config, cacheHist, cacheGets, driver,
                 driversCreated, destroySubs, closed, destroys, contexts>>

\* getDriver() called from outside getMeshSource: the contextBuilder of a
\* returned source, or any holder of the handler.
ContextBuilder ==
  /\ contexts < MaxContexts
  /\ contexts' = contexts + 1
  /\ SetDriver(getDriver)
  /\ UNCHANGED <<othersNeo, config, cacheHist, cacheGets, closed, destroys, gms>>

\* mesh.destroy(): pubsub.publish('destroy', undefined) runs every subscribed
\* () => this.driver.close().
Destroy ==
  /\ Len(destroys) < MaxDestroys
  /\ destroys' = Append(destroys, driver)
  /\ closed' = closed \o [k \in 1..destroySubs |-> driver]
  /\ UNCHANGED <<othersNeo, config, cacheHist, cacheGets, driver,
                 driversCreated, destroySubs, gms, contexts>>

NextNeo ==
  \/ GetMeshSource
  \/ \E c \in DOMAIN gms : CacheGetReturns(c)
  \/ \E c \in DOMAIN gms, inferred \in InferredTypeDefs : InferReturns(c, inferred)
  \/ \E c \in DOMAIN gms : InferFails(c)
  \/ \E c \in DOMAIN gms : CacheSetReturns(c)
  \/ ContextBuilder
  \/ Destroy

(***************************************************************************)
(* The specifications.                                                     *)
(***************************************************************************)
InitMesh ==
  /\ InitMeshVars(UNION {[1..n -> SourceNames] : n \in 0..MaxSources})
  /\ IdleSdk
  /\ IdleInval
  /\ IdleExec
  /\ IdleNeo

SpecMesh == InitMesh /\ [][NextMesh]_vars

InitSdk ==
  /\ InitSdkVars
  /\ IdleMesh
  /\ IdleInval
  /\ IdleExec
  /\ IdleNeo

SpecSdk == InitSdk /\ [][NextSdk]_vars

InitInval ==
  /\ InitInvalVars(InvalidationConfigs)
  /\ IdleMesh
  /\ IdleSdk
  /\ IdleExec
  /\ IdleNeo

SpecInval == InitInval /\ [][NextInval]_vars

InitExec ==
  /\ InitExecVars
  /\ IdleMesh
  /\ IdleSdk
  /\ IdleInval
  /\ IdleNeo

SpecExec == InitExec /\ [][NextExec]_vars

InitNeo ==
  /\ InitNeoVars(Neo4JConfigs, CachedValues)
  /\ IdleMesh
  /\ IdleSdk
  /\ IdleInval
  /\ IdleExec

SpecNeo == InitNeo /\ [][NextNeo]_vars

(***************************************************************************)
(* Properties of getMesh's source registry.                                *)
(***************************************************************************)
Pushed == {rawSources[k] : k \in DOMAIN rawSources}
UniqueNames == \A i, j \in SrcIds : sources[i] = sources[j] => i = j
AfterBarrier == mpc \notin {"map", "await"}

\* C1: if at least one source's getMeshSource (or its no-wrap transforms)
\* failed, getMesh fails, and only after every source was invoked and has
\* settled; the merger is never called in that run; every sibling that
\* succeeded is in rawSources.
C1_FailureAbortsConstruction ==
  /\ (handlerFailed # {} /\ AfterBarrier) => mpc = "failed"
  /\ handlerFailed # {} => mergerCalls = 0
  /\ mpc = "failed" =>
       /\ \A i \in SrcIds : Settled(i)
       /\ \A i \in SrcIds \ handlerFailed : i \in Pushed

C3_ExactlyNRawSources ==
  (N >= 1 /\ UniqueNames /\ \A i \in SrcIds : status[i] = "pushed") =>
    /\ mpc # "failed"
    /\ thrown = NoError
    /\ Len(rawSources) = N
    /\ Pushed = SrcIds
    /\ {sources[i] : i \in Pushed} = {sources[i] : i \in SrcIds}
    /\ mpc \in {"subscribe", "sdk", "hooked", "done"} =>
         /\ mergerCalls = 1
         /\ \A k \in DOMAIN rawSources : rawSources[k] \in DOMAIN sourceMap
         /\ \A k, l \in DOMAIN rawSources :
              sourceMap[rawSources[k]] = sourceMap[rawSources[l]] => k = l
    /\ (mpc = "done" \/ ENABLED NextMesh)

C3_Witness ==
  /\ mpc = "done"
  /\ N = 3
  /\ UniqueNames
  /\ rawSources = <<3, 1, 2>>
  /\ DOMAIN sourceMap = SrcIds

(***************************************************************************)
(* Properties of the in-context SDK callable.                              *)
(***************************************************************************)
TickCalls(t) == {c \in DOMAIN calls : calls[c].tick = t}
TickDelegated(t) == {d \in DOMAIN delegated : delegated[d].tick = t}
ClosedTicks == {t \in 0..tick : t < tick}

\* The keys of the calls of tick t, in call order.
KeysInOrder(t) ==
  LET InTick(c) == c.tick = t
      sel == SelectSeq(calls, InTick)
  IN  [k \in DOMAIN sel |-> sel[k].key]

BothSupplied(call) == Supplied(call.key) /\ call.argsFromKeys

\* C4: N calls with key and argsFromKeys and pairwise distinct keys inside one
\* tick give exactly one delegated call for the field, with arguments
\* argsFromKeys(collected keys); caller i receives
\* valuesFromResults(result, keys)[i]; a call issued after the window has
\* closed belongs to a new batch and a new delegated call.
C4_OneDelegatedCallPerTick ==
  /\ \A t \in ClosedTicks :
       ( /\ TickCalls(t) # {}
         /\ \A c \in TickCalls(t) : BothSupplied(calls[c])
         /\ \A c1, c2 \in TickCalls(t) :
              calls[c1].key = calls[c2].key => c1 = c2 )
       => /\ Cardinality(TickDelegated(t)) = 1
          /\ \A d \in TickDelegated(t) :
               /\ delegated[d].args = ArgsFromKeys(KeysInOrder(t))
               /\ \A c \in TickCalls(t) :
                    /\ calls[c].delegate = d
                    /\ delegated[d].st = "ok" =>
                         LET res == delegated[d].res
                             vals == IF calls[c].valuesFromResults
                                       THEN ValuesFromResults(res) ELSE res
                             pos == IndexOf(KeysInOrder(t), calls[c].key)
                         IN  /\ pos \in DOMAIN vals
                             /\ calls[c].outcome = Resolved(<<vals[pos]>>)
  /\ \A c1, c2 \in DOMAIN calls :
       (calls[c1].tick # calls[c2].tick /\ calls[c1].delegate # 0)
         => calls[c1].delegate # calls[c2].delegate

\* C5: the callable takes the batched path (batchDelegateToSchema with key,
\* argsFromKeys, valuesFromResults and no args) exactly when key and
\* argsFromKeys are both supplied, the empty key included; otherwise it makes
\* exactly one delegateToSchema call with args; never both.
C5_BatchedIffBothSupplied ==
  \A c \in DOMAIN calls :
    LET call == calls[c]
        own == {d \in DOMAIN delegated :
                  delegated[d].fn = "delegateToSchema" /\ call.delegate = d}
    IN  IF BothSupplied(call)
          THEN /\ call.options.fn = "batchDelegateToSchema"
               /\ call.options.key /\ call.options.argsFromKeys
               /\ call.options.valuesFromResults /\ ~call.options.args
               /\ own = {}
          ELSE /\ call.options.fn = "delegateToSchema"
               /\ call.options.args
               /\ Cardinality(own) = 1
               /\ \A d \in own : delegated[d].args = DirectArgs

\* C6: when the delegation layer raises an error in a call (batched or not,
\* with or without a selectionSet), the callable rejects with that very
\* error, and valuesFromResults has not been applied in the non-batched path.
C6_DelegationErrorUnwrapped ==
  \A c \in DOMAIN calls :
    LET call == calls[c] IN
    /\ (call.delegate # 0 /\ delegated[call.delegate].st = "err") =>
         /\ call.outcome = Rejected(delegated[call.delegate].res[1])
         /\ call.options.fn = "delegateToSchema" => ~call.vfrApplied
    /\ call.outcome.st = "rejected" =>
         /\ call.delegate # 0
         /\ delegated[call.delegate].st = "err"

C6_Witness ==
  \E c1, c2 \in DOMAIN calls :
    /\ calls[c1].options.fn = "delegateToSchema"
    /\ calls[c1].valuesFromResults /\ calls[c1].selectionSet
    /\ calls[c1].outcome = Rejected("E1")
    /\ calls[c2].options.fn = "batchDelegateToSchema"
    /\ ~calls[c2].selectionSet
    /\ calls[c2].outcome = Rejected("E1")

(***************************************************************************)
(* Properties of the invalidation wiring.                                  *)
(***************************************************************************)
\* The identifiers passed to liveQueryStore.invalidate on behalf of event n.
InvalidatedFor(n) ==
  UNION {{invalidateCalls[k].paths[j] : j \in DOMAIN invalidateCalls[k].paths} :
           k \in {k \in DOMAIN invalidateCalls : invalidateCalls[k].event = n}}

\* The templates the configuration gives a field key: those of the entry that
\* was set last under it, none when no entry names it.
ConfiguredTemplates(key) ==
  LET named == {k \in DOMAIN liveQueryInvalidations :
                  liveQueryInvalidations[k].field = key}
  IN  IF named = {} THEN <<>>
      ELSE liveQueryInvalidations[CHOOSE k \in named : \A l \in named : l <= k]
             .invalidate

\* What the claim expects event ev to invalidate.
ExpectedIds(ev) ==
  IF ~(ev.info /\ ev.parentType.def /\ ev.fieldName.def) THEN {}
  ELSE LET tpls == ConfiguredTemplates(ev.parentType.name \o "." \o ev.fieldName.v)
       IN  {Interpolate(tpls[k], [args |-> ev.args, result |-> ev.result]) :
              k \in DOMAIN tpls}

\* C7: for every resolverDone event the identifiers invalidated are exactly
\* those of the templates configured for parentType.name + "." + fieldName,
\* evaluated on {...resolverData, result}; rule Query.user with template
\* id:{args.id} and args.id = "42" invalidates id:42 and nothing else; an
\* event with no rule, or without info.parentType or info.fieldName,
\* invalidates nothing.
C7_InvalidatesExactlyConfigured ==
  \A n \in DOMAIN published :
    /\ InvalidatedFor(n) = ExpectedIds(published[n])
    /\ ( /\ liveQueryInvalidations =
              <<[field |-> "Query.user", invalidate |-> <<TemplateId>>]>>
         /\ published[n].info
         /\ published[n].parentType = Type("Query")
         /\ published[n].fieldName = Field("user")
         /\ published[n].args.id = "42" )
       => InvalidatedFor(n) = {"id:42"}
    /\ ~(published[n].info /\ published[n].parentType.def
           /\ published[n].fieldName.def)
       => \A k \in DOMAIN invalidateCalls : invalidateCalls[k].event # n

C7_Witness ==
  /\ liveQueryInvalidations =
       <<[field |-> "Query.user", invalidate |-> <<TemplateId>>]>>
  /\ Len(published) = 2
  /\ published[1].parentType = Type("Query")
  /\ published[1].fieldName = Field("user")
  /\ published[1].args.id = "42"
  /\ InvalidatedFor(1) = {"id:42"}
  /\ published[2].parentType = Type("Mutation")
  /\ published[2].fieldName = Field("user")
  /\ InvalidatedFor(2) = {}

(***************************************************************************)
(* Properties of meshExecute, meshSubscribe and localRequester.            *)
(***************************************************************************)
ExecutorCalled == req.jitExecutor > 0

\* C8: execute never throws for a per-request failure: whatever the document
\* (two operations and no operationName, no operation at all) and whatever
\* the executor does, execute resolves to an execution result.
C8_ExecuteNeverRejects ==
  (req.api = "execute" /\ req.pc = "done") =>
    /\ req.outcome.st = "resolved"
    /\ req.outcome.result \in ExecutionResults

\* C9 as claimed: the operation name execute and subscribe pass to the
\* executor is the explicit operationName when one is given, else the name of
\* the document's sole operation (undefined when it is anonymous); an explicit
\* operationName is never replaced by an inferred one.
C9_ExplicitNameNeverReplaced ==
  (req.api \in {"execute", "subscribe"} /\ ExecutorCalled) =>
    /\ req.operationName.def => req.opName = req.operationName
    /\ (~req.operationName.def /\ Len(req.document) = 1)
         => req.opName = req.document[1].name

\* C9 as amended: a non-empty explicit operationName is passed on unchanged;
\* an operationName that is undefined or the empty string counts as not
\* given: the executor then gets the name of the document's sole operation
\* (undefined when it is anonymous).
C9_NonEmptyNameKept ==
  (req.api \in {"execute", "subscribe"} /\ ExecutorCalled) =>
    /\ (req.operationName.def /\ req.operationName.v # "")
         => req.opName = req.operationName
    /\ (~req.operationName.def \/ req.operationName.v = "")
         => /\ Len(req.document) = 1
            /\ req.opName = req.document[1].name

C9_Witness ==
  /\ req.api = "execute"
  /\ Len(req.document) = 2
  /\ req.operationName = Name("B")
  /\ req.opName = Name("B")
  /\ req.pc = "done"
  /\ req.liveQueryExecute = 1
  /\ req.outcome.st = "resolved"

\* C10: the requester returns the result's data if and only if the result
\* has data and no errors; a result with errors (with or without data) makes
\* it throw, after logging, one aggregate error that wraps exactly the
\* result's errors and carries the document, the variables and the data.
C10_RequesterReturnsOrAggregates ==
  (req.api = "sdkRequester" /\ req.pc = "done" /\ req.result # NoResult) =>
    LET r == req.result IN
    /\ req.outcome.st = "resolved" <=> (DataTruthy(r) /\ ~ErrorsTruthy(r))
    /\ req.outcome.st = "resolved" => req.outcome.data = r.data
    /\ (r.errors.state = "list" /\ r.errors.list # <<>>) =>
         /\ req.logged
         /\ req.outcome = Throws(GraphQLMeshSdkError(r.errors, r.data))

\* The result has neither a data key nor an errors key.
NeitherKey(r) == r.data = "absent" /\ r.errors.state = "absent"

\* C11: a result with neither a data key nor an errors key makes the
\* requester throw the plain Error('Not implemented'): no value returned, no
\* aggregate error, no log entry; a result that has a data or an errors key
\* never ends that way, whatever is stored under the key.
C11_NeitherKeyNotImplemented ==
  (req.api = "sdkRequester" /\ req.pc = "done" /\ req.result # NoResult) =>
    /\ NeitherKey(req.result) =>
         /\ req.outcome = Throws(NotImplemented)
         /\ ~req.logged
    /\ ~NeitherKey(req.result) =>
         /\ req.outcome.error # NotImplemented
         /\ req.outcome.st = "rejected" => req.logged

C11_Witness ==
  /\ req.api = "sdkRequester"
  /\ req.pc = "done"
  /\ req.result = ExecutionResult("absent", NoErrors("absent"))
  /\ req.liveQueryExecute = 1
  /\ req.outcome = Throws(NotImplemented)
  /\ ~req.logged

\* C12: every execute call (the requester's included) runs its operation
\* exactly once through the live-query store's executor, which calls the JIT
\* executor; every subscribe call calls the JIT executor directly, once, and
\* never the live-query store's executor.
C12_ExecuteOnceViaLiveQuery ==
  /\ req.liveQueryExecute <= 1
  /\ req.jitExecutor <= 1
  /\ req.liveQueryExecute <= req.jitExecutor
  /\ req.api = "subscribe" => req.liveQueryExecute = 0
  /\ (req.api \in {"execute", "sdkRequester"} /\ req.jitExecutor = 1)
       => req.liveQueryExecute = 1
  /\ (req.pc = "done" /\ req.input.valid) => req.jitExecutor = 1

(***************************************************************************)
(* Properties of the Neo4j handler.                                        *)
(***************************************************************************)
\* The destroy events published while a driver existed.
DestroysWithDriver ==
  LET HasDriver(d) == d # 0 IN SelectSeq(destroys, HasDriver)

\* C13: whatever getDriver and getMeshSource calls were made, overlapping
\* ones included, at most one driver has been created and at most one destroy
\* subscription made; the subscription exists exactly when the driver does;
\* each destroy event published from then on closes that one driver, once.
C13_OneDriverOneSubscription ==
  /\ driversCreated <= 1
  /\ destroySubs <= 1
  /\ destroySubs = 1 <=> driver # 0
  /\ driver # 0 <=> driversCreated = 1
  /\ closed = DestroysWithDriver
  /\ \A k \in DOMAIN closed : closed[k] = driver

C13_Witness ==
  /\ Len(gms) = 2
  /\ gms[1].pc = "infer"
  /\ gms[2].pc = "infer"
  /\ contexts = 1
  /\ driversCreated = 1
  /\ destroySubs = 1
  /\ destroys = <<0, 1>>
  /\ closed = <<1>>

(***************************************************************************)
(* More properties of the invalidation wiring.                             *)
(***************************************************************************)
\* The invalidate calls made on behalf of event n.
CallsFor(n) == {k \in DOMAIN invalidateCalls : invalidateCalls[k].event = n}

\* The field key of an event that carries a parent type and a field name.
EventKey(ev) == ev.parentType.name \o "." \o ev.fieldName.v
HasKeyParts(ev) == ev.info /\ ev.parentType.def /\ ev.fieldName.def

\* Some configured entry names the field key.
HasRule(key) ==
  \E k \in DOMAIN liveQueryInvalidations : liveQueryInvalidations[k].field = key

\* The paths of the field's templates for event ev, in template order.
ExpectedBatch(ev) ==
  LET tpls == ConfiguredTemplates(EventKey(ev))
  IN  [k \in DOMAIN tpls |->
         Interpolate(tpls[k], [args |-> ev.args, result |-> ev.result])]

\* C14: a resolverDone event whose field has a configured rule causes exactly
\* one invalidate call, carrying the paths of all the field's factories in
\* template order; no event causes more than one call; whatever the order in
\* which the calls of different events complete, each call keeps exactly the
\* paths of its own event.
C14_OneBatchPerEvent ==
  /\ \A n \in DOMAIN published :
       /\ Cardinality(CallsFor(n)) <= 1
       /\ (HasKeyParts(published[n]) /\ HasRule(EventKey(published[n])))
            => /\ Cardinality(CallsFor(n)) = 1
               /\ \A k \in CallsFor(n) :
                    invalidateCalls[k].paths = ExpectedBatch(published[n])
  /\ \A k \in DOMAIN invalidateCalls :
       invalidateCalls[k].event \in DOMAIN published
  /\ \A k, l \in DOMAIN invalidateCalls :
       k < l => invalidateCalls[k].event < invalidateCalls[l].event

C14_Witness ==
  /\ Len(invalidateCalls) = 2
  /\ invalidateCalls[1].st = "pending"
  /\ invalidateCalls[2].st = "done"
  /\ invalidateCalls[1].paths = <<"id:42", "all">>
  /\ invalidateCalls[2].paths = <<"all", "res:r1/7">>

\* The entries among the first n that name a field key.
NamedUpTo(key, n) ==
  {k \in 1..n : k \in DOMAIN liveQueryInvalidations
                  /\ liveQueryInvalidations[k].field = key}

\* C17: the invalidation mapping holds, for each field key, exactly the
\* factories of the last configured entry for that field: a later entry for
\* the same field replaces the earlier one, and a resolverDone event for the
\* field evaluates the later entry's templates only.
C17_LastEntryWins ==
  /\ DOMAIN liveQueryInvalidationFactoryMap =
       {liveQueryInvalidations[k].field : k \in 1..(ridx - 1)}
  /\ \A key \in DOMAIN liveQueryInvalidationFactoryMap :
       LET named == NamedUpTo(key, ridx - 1)
           last == CHOOSE k \in named : \A l \in named : l <= k
       IN  liveQueryInvalidationFactoryMap[key] =
             liveQueryInvalidations[last].invalidate
  /\ \A k \in DOMAIN invalidateCalls :
       LET ev == published[invalidateCalls[k].event]
           named == NamedUpTo(EventKey(ev), Len(liveQueryInvalidations))
           last == CHOOSE i \in named : \A l \in named : l <= i
           tpls == liveQueryInvalidations[last].invalidate
       IN  /\ named # {}
           /\ Len(invalidateCalls[k].paths) = Len(tpls)
           /\ \A j \in DOMAIN tpls :
                invalidateCalls[k].paths[j] =
                  Interpolate(tpls[j], [args |-> ev.args, result |-> ev.result])

C17_Witness ==
  /\ liveQueryInvalidations =
       <<[field |-> "Query.user", invalidate |-> <<TemplateId>>],
         [field |-> "Query.user", invalidate |-> <<TemplateAll, TemplateResult>>]>>
  /\ liveQueryInvalidationFactoryMap =
       [k \in {"Query.user"} |-> <<TemplateAll, TemplateResult>>]
  /\ Len(invalidateCalls) = 1
  /\ invalidateCalls[1].paths = <<"all", "res:r1/42">>

\* A getMeshSource call that has its answer from the cache.
PastGet(call) == call.pc \notin {"start", "get"}

\* The cache holds type definitions some call inferred and set.
HoldsInferred(typeDefs) ==
  /\ \E k \in DOMAIN cacheHist : k > 1 /\ cacheHist[k] = typeDefs
  /\ CacheValue \in InferredTypeDefs

\* What the handler does with the cache and the driver, given which cached
\* values count as present.
CacheDiscipline(Present(_)) ==
  /\ ~config.cacheIntrospection =>
       /\ cacheGets = 0
       /\ Len(cacheHist) = 1
       /\ \A c \in DOMAIN gms : gms[c].gets = 0 /\ gms[c].sets = 0
  /\ Len(cacheHist) = 1 + Cardinality({c \in DOMAIN gms : gms[c].sets = 1})
  /\ \A c \in DOMAIN gms :
       LET call == gms[c] IN
       /\ call.sets <= 1
       /\ call.inferSchema <= 1
       /\ (config.cacheIntrospection /\ PastGet(call) /\ Present(call.cached)) =>
            /\ call.inferSchema = 0
            /\ ~call.createdDriver
            /\ call.sets = 0
            /\ call.st = "resolved"
            /\ call.typeDefs = call.cached
       /\ (config.cacheIntrospection /\ PastGet(call) /\ ~Present(call.cached)
             /\ call.st = "resolved") =>
            /\ call.inferSchema = 1
            /\ call.typeDefs \in InferredTypeDefs
            /\ call.wrote = call.typeDefs
            /\ HoldsInferred(call.typeDefs)
       /\ call.st = "rejected" => call.sets = 0
  /\ ( /\ config.cacheIntrospection
       /\ contexts = 0
       /\ \A c \in DOMAIN gms : PastGet(gms[c]) => Present(gms[c].cached) )
     => driversCreated = 0 /\ destroySubs = 0

CachedPresent(typeDefs) == typeDefs.def
CachedNonEmpty(typeDefs) == typeDefs.def /\ typeDefs.v # ""

\* C15 as claimed: getMeshSource uses the cache only with cacheIntrospection:
\* disabled, the cache is neither read nor written; enabled with a cached
\* value present, the cached type definitions are used and there is no
\* inference, no driver and no destroy subscription; enabled with no cached
\* value, inference runs once and the cache then holds the inferred type
\* definitions; a failed inference leaves the cache unchanged.
C15_CacheOnlyWhenEnabled == CacheDiscipline(CachedPresent)

\* C15 as amended: the same, where a cached value counts as present when it
\* is a non-empty string; an empty cached string is treated as no cached
\* value: inference runs and its result replaces it.
C15_NonEmptyCachedValueUsed == CacheDiscipline(CachedNonEmpty)

C15_Witness ==
  /\ config.cacheIntrospection
  /\ cacheHist = <<TypeDefs(""), TypeDefs("T1")>>
  /\ Len(gms) = 2
  /\ gms[1].st = "resolved" /\ gms[1].inferSchema = 1
  /\ gms[2].st = "resolved" /\ gms[2].inferSchema = 0
  /\ gms[2].typeDefs = TypeDefs("T1")
  /\ driversCreated = 1

(***************************************************************************)
(* Properties of the mesh context.                                         *)
(***************************************************************************)
ReservedKeys == {"pubsub", "cache", "liveQueryStore"}

\* The callables the transformed schema of source i calls for: one per field
\* of each root type it has.
ExpectedCallables(i) ==
  LET rootTypes == sourceMap[i].rootTypes
  IN  UNION {{<<rootTypes[op].name, f>> : f \in rootTypes[op].fields} :
               op \in {"query", "mutation", "subscription"}}

\* The mesh context holds an SDK object under the name of source i.
HasSdk(i) ==
  /\ sources[i] \in DOMAIN meshContext
  /\ meshContext[sources[i]].kind = "sdk"

\* C16: the resolverDone subscriber is registered and the mesh context has
\* the SDK object of every source before the resolver hooks are applied and
\* before execute / subscribe are returned; from the hooks on, the key set of
\* the mesh context is final.
C16_ContextCompleteBeforeHooks ==
  (hooksApplied \/ mpc \in {"hooked", "done"}) =>
    /\ subscribed
    /\ \A i \in SrcIds : HasSdk(i)
    /\ DOMAIN meshContext = ReservedKeys \cup {sources[i] : i \in SrcIds}
    /\ mpc = "done" => hooksApplied

\* The raw source whose SDK was attached last under a name.
LastAttached(name) ==
  LET ks == {k \in DOMAIN rawSources : sources[rawSources[k]] = name}
  IN  rawSources[CHOOSE k \in ks : \A l \in ks : l <= k]

\* C18: after construction the mesh context holds the pubsub, cache and
\* liveQueryStore handles and one SDK object per source under the source's
\* name, with one callable per field of each root type of the source's
\* transformed schema, when the names are pairwise distinct and none is a
\* reserved key; a source named like a reserved key replaces the handle; of
\* two sources with one name the one attached last remains.
C18_ContextHoldsHandlesAndSdks ==
  mpc = "done" =>
    /\ (UniqueNames /\ \A i \in SrcIds : sources[i] \notin ReservedKeys) =>
         /\ DOMAIN meshContext = ReservedKeys \cup {sources[i] : i \in SrcIds}
         /\ \A k \in ReservedKeys : meshContext[k] = Handle(k)
         /\ \A i \in SrcIds :
              /\ HasSdk(i)
              /\ meshContext[sources[i]].src = i
              /\ meshContext[sources[i]].callables = ExpectedCallables(i)
    /\ \A k \in ReservedKeys :
         IF \E i \in Pushed : sources[i] = k
           THEN meshContext[k].kind = "sdk"
           ELSE meshContext[k] = Handle(k)
    /\ \A i \in Pushed :
         /\ meshContext[sources[i]].src = LastAttached(sources[i])
         /\ meshContext[sources[i]].callables =
              ExpectedCallables(LastAttached(sources[i]))

(***************************************************************************)
(* More properties of the in-context SDK callable.                         *)
(***************************************************************************)
\* C19: in the non-batched path the caller receives valuesFromResults(result)
\* -- called with the delegated result and no keys -- when valuesFromResults
\* was supplied, and the delegated result unchanged when it was not; a key or
\* an argsFromKeys supplied alone is ignored: the delegated call is made with
\* the caller's args.
C19_NonBatchedValuesFromResults ==
  \A c \in DOMAIN calls :
    LET call == calls[c] IN
    call.options.fn = "delegateToSchema" =>
      /\ call.delegate \in DOMAIN delegated
      /\ delegated[call.delegate].fn = "delegateToSchema"
      /\ delegated[call.delegate].args = DirectArgs
      /\ ~call.options.key /\ ~call.options.argsFromKeys
      /\ delegated[call.delegate].st = "ok" =>
           LET result == delegated[call.delegate].res IN
           IF call.valuesFromResults
             THEN /\ call.outcome = Resolved(ValuesFromResults(result))
                  /\ call.vfrArgs = <<"result">>
             ELSE /\ call.outcome = Resolved(result)
                  /\ call.vfrArgs = <<>>

C19_Witness ==
  \E c1, c2 \in DOMAIN calls :
    /\ calls[c1].key = StringKey("k1") /\ ~calls[c1].argsFromKeys
    /\ calls[c1].valuesFromResults
    /\ calls[c1].outcome = Resolved(<<"x:v:args">>)
    /\ calls[c2].key = KeyUndefined /\ calls[c2].argsFromKeys
    /\ ~calls[c2].valuesFromResults
    /\ calls[c2].outcome = Resolved(<<"v:args">>)

====
